---- MODULE Spec2Model ----
(***************************************************************************)
(* Anonymous Telegram bot: the pending-request queue (QueueManager) and    *)
(* the two message handlers that drive delete-then-repost.                 *)
(***************************************************************************)
EXTENDS Integers, Sequences, FiniteSets, Bags, TLC

VARIABLES
  now,        \* datetime.now(), in abstract clock ticks
  timeout,    \* QueueManager.timeout (set once by the constructor)
  queue,      \* QueueManager._queue : key -> QueueEntry, None when the key is absent
  ret,        \* the last call of add/pop/check and the value it returned
  last,       \* per key: the last add or pop on it ("idle" before any)
  sweptAt,    \* the clock at the last run of _cleanup_expired (-1: never ran)
  queueNS,    \* a second QueueManager given the same calls, whose sweep never runs
  retNS,      \* what the last call returned on that second manager
  error_notifications,  \* MessageProcessor.error_notifications
  tasks,      \* the bag of handler tasks in flight: the message each handles,
              \* where it stands, and the transport call it awaits
  fresh,      \* per key: an add() was made that no pop() has returned yet
  handled,    \* when the handling of events is observed (one event at a time):
              \* the event last offered to the router and the calls made for
              \* it, in order; None when it is not observed
  cleanup_task,  \* QueueManager._cleanup_task: 0 for None, else the task's index
  loops,         \* the _cleanup_loop tasks created so far, each one's position
  stop_pc,       \* the task a stop() in progress awaits, 0 when none is
  stopped,       \* the last start()/stop() call that returned was a stop()
  lock,          \* QueueManager._lock: the task that holds it, 0 when free
  procs          \* the tasks seen step by step through the lock: where each
                 \* stands in its handler or in the sweep

\* what a caller of the QueueManager observes, and the record of its calls
ovars == <<ret, last, sweptAt, queueNS, retNS>>
hvars == <<error_notifications, tasks, fresh, handled>>
lvars == <<cleanup_task, loops, stop_pc, stopped, lock, procs>>
vars == <<now, timeout, queue, ovars, hvars, lvars>>

\* ---- bounds ----
MaxTime == 3
MaxTimeout == 2
MaxTasks == 2
MaxStarts == 2

\* (chat_id, user_id) keys, as queue_manager.py builds them: two users of one
\* chat, and one of them in a second chat and in a private chat.
Keys == {<<1, 1>>, <<1, 2>>, <<2, 1>>, <<3, 1>>}
\* reply_to_message_id is None or a message id; message ids are positive
NoId == 0
\* the messages replied to: a command replies to message 1, a follow-up to 2
CommandReplies == {NoId, 1}
FollowUpReplies == {NoId, 2}
OptReply == CommandReplies \cup FollowUpReplies

None == [none |-> TRUE]

QueueEntry(user_id, chat_id, expires_at, reply_to_message_id) ==
  [user_id |-> user_id, chat_id |-> chat_id, expires_at |-> expires_at,
   reply_to_message_id |-> reply_to_message_id]

\* ---- QueueManager: the map after / the value returned by each call ----

\* a first-request-wins add: a live entry of the key is kept
add_queue_keep(q, key, reply_to_message_id, t, T) ==
  IF q[key] # None /\ q[key].expires_at > t
    THEN q
    ELSE [q EXCEPT ![key] = QueueEntry(key[2], key[1], t + T, reply_to_message_id)]

\* add(): self._queue[key] = QueueEntry(..., expires_at = now + timeout, ...)
add_queue(q, key, reply_to_message_id, t, T) ==
  [q EXCEPT ![key] = QueueEntry(key[2], key[1], t + T, reply_to_message_id)]

\* a pop that reads the entry with get() and leaves it in the map
pop_queue_get(q, key) == q

\* pop(): self._queue.pop(key, None)
pop_queue(q, key) ==
  [q EXCEPT ![key] = None]

\* a pop that returns whatever it removed, expired or not
pop_result_any(q, key, t) == q[key]

\* pop(): the value returned
pop_result(q, key, t) ==
  IF q[key] # None /\ q[key].expires_at > t THEN q[key] ELSE None

\* a check that trusts the sweep: any entry present counts as live
check_result_present(q, key, t) == q[key] # None

\* a check that still answers true at the expiry instant
check_result_ge(q, key, t) ==
  q[key] # None /\ q[key].expires_at >= t

\* check(): entry is not None and entry.expires_at > datetime.now()
check_result(q, key, t) ==
  q[key] # None /\ q[key].expires_at > t

\* a sweep that spares the entries expiring at this very instant
expired_keys_lt(q, t) ==
  {key \in DOMAIN q : q[key] # None /\ q[key].expires_at < t}

\* _cleanup_expired(): the keys collected, then deleted
expired_keys(q, t) ==
  {key \in DOMAIN q : q[key] # None /\ q[key].expires_at <= t}

cleanup_queue(q, t) ==
  [key \in DOMAIN q |-> IF key \in expired_keys(q, t) THEN None ELSE q[key]]

\* ---- the tasks that use the QueueManager ----
\* the handler tasks, and after them the task of _cleanup_loop
Procs == 1..(MaxTasks + 1)
SweepProc == MaxTasks + 1

\* role: the handler path run; pc: the call awaited; key, reply: of the
\* event handled; at: the datetime.now() read before the lock is asked for;
\* entry: what was read from the map; expired: the keys the sweep collected
IdleTask ==
  [role |-> "none", pc |-> "idle", key |-> <<0, 0>>, reply |-> NoId, at |-> 0,
   entry |-> None, expired |-> {}]
SweepTask == [IdleTask EXCEPT !.role = "sweep", !.pc = "sleep"]

\* ---- QueueManager actions ----

add(key, reply_to_message_id) ==
  /\ queue' = add_queue(queue, key, reply_to_message_id, now, timeout)
  /\ queueNS' = add_queue(queueNS, key, reply_to_message_id, now, timeout)
  /\ ret' = [op |-> "add", key |-> key, val |-> None]
  /\ retNS' = None
  /\ last' = [last EXCEPT ![key] =
                [op |-> "add", at |-> now, reply |-> reply_to_message_id,
                 over |-> (queue[key] # None /\ queue[key].expires_at > now),
                 twice |-> FALSE, had |-> FALSE]]
  /\ UNCHANGED <<now, timeout, sweptAt>>

pop(key) ==
  /\ queue' = pop_queue(queue, key)
  /\ queueNS' = pop_queue(queueNS, key)
  /\ ret' = [op |-> "pop", key |-> key, val |-> pop_result(queue, key, now)]
  /\ retNS' = pop_result(queueNS, key, now)
  /\ last' = [last EXCEPT ![key] =
                [op |-> "pop", at |-> 0, reply |-> NoId,
                 over |-> (last[key].op = "add" /\ last[key].over),
                 twice |-> (last[key].op = "pop"),
                 had |-> (queue[key] # None)]]
  /\ UNCHANGED <<now, timeout, sweptAt>>

check(key) ==
  /\ ret' = [op |-> "check", key |-> key, val |-> check_result(queue, key, now)]
  /\ retNS' = check_result(queueNS, key, now)
  /\ UNCHANGED <<now, timeout, queue, queueNS, last, sweptAt>>

\* one pass of _cleanup_loop: _cleanup_expired()
cleanup_expired ==
  /\ queue' = cleanup_queue(queue, now)
  /\ sweptAt' = now
  /\ UNCHANGED <<now, timeout, ret, last, queueNS, retNS>>

Tick ==
  /\ now < MaxTime
  /\ now' = now + 1
  /\ UNCHANGED <<timeout, queue, ret, last, sweptAt, queueNS, retNS>>

\* The state after construction: QueueManager.__init__ with a timeout among
\* `timeouts`, MessageProcessor.__init__, no handler started, start() not
\* called yet; `watch` is what the observer of the handlers starts with.
Constructed(timeouts, watch) ==
  /\ now = 0
  /\ timeout \in timeouts
  /\ queue = [key \in Keys |-> None]
  /\ queueNS = [key \in Keys |-> None]
  /\ ret = [op |-> "none", key |-> <<0, 0>>, val |-> None]
  /\ retNS = None
  /\ last = [key \in Keys |->
              [op |-> "idle", at |-> 0, reply |-> NoId, over |-> FALSE,
               twice |-> FALSE, had |-> FALSE]]
  /\ sweptAt = 0 - 1
  /\ error_notifications \in BOOLEAN
  /\ tasks = EmptyBag
  /\ fresh = [key \in Keys |-> FALSE]
  /\ handled = watch
  /\ cleanup_task = 0
  /\ loops = <<>>
  /\ stop_pc = 0
  /\ stopped = FALSE
  /\ lock = 0
  /\ procs = [p \in Procs |-> IF p = SweepProc THEN SweepTask ELSE IdleTask]

QueueInit == Constructed(1..MaxTimeout, None)

\* ---- the QueueManager under an arbitrary caller ----
\* the keys that caller uses: two users of one chat
ApiKeys == {key \in Keys : key[1] = 1}

CallAdd == \E key \in ApiKeys, r \in OptReply : add(key, r) /\ UNCHANGED <<hvars, lvars>>
CallPop == \E key \in ApiKeys : pop(key) /\ UNCHANGED <<hvars, lvars>>
CallCheck == \E key \in ApiKeys : check(key) /\ UNCHANGED <<hvars, lvars>>
Sweep == cleanup_expired /\ UNCHANGED <<hvars, lvars>>
Clock == Tick /\ UNCHANGED <<hvars, lvars>>

QueueNext == CallAdd \/ CallPop \/ CallCheck \/ Sweep \/ Clock

QueueSpec == QueueInit /\ [][QueueNext]_vars

\* ---- claims about the QueueManager ----

\* C1: after add() at time t with timeout T, and no later add or pop on the
\* key, check() is true at every time before t+T and false from t+T on,
\* swept or not; and check() never changes the map.
C1_MonotonicExpiry ==
  /\ [](\A key \in Keys : last[key].op = "add" =>
          (check_result(queue, key, now) <=> now < last[key].at + timeout))
  /\ [][\A key \in Keys : check(key) =>
          /\ queue' = queue
          /\ last[key].op = "add" =>
               (ret'.val <=> now < last[key].at + timeout)]_vars

\* C1 witness: check() has answered false for an entry that expired and was
\* not swept.
C1_Witness ==
  \E key \in Keys :
    /\ ret.op = "check" /\ ret.key = key /\ ret.val = FALSE
    /\ last[key].op = "add" /\ now >= last[key].at + timeout
    /\ queue[key] # None

\* C2: pop() leaves the map without the key, whether the entry was live,
\* expired or absent, and returns the removed entry iff one existed whose
\* expiry was strictly in the future.
C2_PopRemovesAndValidates ==
  [][\A key \in Keys : pop(key) =>
       /\ queue'[key] = None
       /\ ret'.val = IF queue[key] # None /\ queue[key].expires_at > now
                       THEN queue[key] ELSE None]_vars

\* C2 witness: a pop has removed an expired entry and returned nothing.
C2_Witness ==
  \E key \in Keys :
    /\ ret.op = "pop" /\ ret.key = key /\ ret.val = None
    /\ last[key].op = "pop" /\ last[key].had
    /\ queue[key] = None

\* C3: of two consecutive pop() calls on a key with no add() on it between,
\* the second returns nothing.
C3_SecondPopNothing ==
  [][\A key \in Keys : (pop(key) /\ last[key].op = "pop") => ret'.val = None]_vars

\* C3 witness: a key has been popped twice in a row.
C3_Witness ==
  \E key \in Keys :
    ret.op = "pop" /\ ret.key = key /\ last[key].op = "pop" /\ last[key].twice

\* C4: one run of the sweep removes exactly the entries with
\* expires_at <= now: none that check() calls live, every expired one.
C4_SweepExact ==
  [][cleanup_expired =>
       \A key \in Keys :
         /\ check_result(queue, key, now) => queue'[key] = queue[key]
         /\ (queue[key] # None /\ queue[key].expires_at <= now) => queue'[key] = None
         /\ queue[key] = None => queue'[key] = None]_vars

\* C4 witness: the sweep has just removed an expired entry and kept a live one.
C4_Witness ==
  /\ sweptAt = now
  /\ \E k1, k2 \in Keys :
       /\ queue[k1] = None /\ queueNS[k1] # None /\ queueNS[k1].expires_at <= now
       /\ queue[k2] # None /\ queue[k2].expires_at > now

\* C5: last request wins: a pop() that returns an entry returns the
\* reply-target and expiry of the latest add() on the key, never those of
\* an add() it overwrote.
C5_LastRequestWins ==
  [][\A key \in Keys : (pop(key) /\ ret'.val # None) =>
       /\ last[key].op = "add"
       /\ ret'.val.reply_to_message_id = last[key].reply
       /\ ret'.val.expires_at = last[key].at + timeout
       /\ ret'.val.chat_id = key[1] /\ ret'.val.user_id = key[2]]_vars

\* C5 witness: a pop has returned the entry of an add() that overwrote a
\* live entry.
C5_Witness ==
  \E key \in Keys :
    /\ ret.op = "pop" /\ ret.key = key /\ ret.val # None
    /\ last[key].op = "pop" /\ last[key].over

\* C6: check() and pop() return the same values whether the sweep runs at
\* arbitrary points or never.
C6_SweepUnobservable ==
  ret.val = retNS

\* C6 witness: check() has been called on a key whose expired entry the sweep
\* removed and the unswept manager still holds.
C6_Witness ==
  \E key \in Keys :
    /\ ret.op = "check" /\ ret.key = key
    /\ queue[key] = None /\ queueNS[key] # None

\* ---- helpers.py: text and message analysis ----

\* Message text is a sequence of tokens; <<>> stands for None (and for "",
\* which the code treats alike: every use is a truth test).
command_prefix == "@anon"

\* str.lower()
lower(tok) == IF tok = "@ANON" THEN "@anon" ELSE tok

\* str.strip()
strip(text) ==
  LET inked == {i \in 1..Len(text) : text[i] # " "}
  IN  IF inked = {} THEN <<>>
      ELSE SubSeq(text,
                  CHOOSE i \in inked : \A j \in inked : i <= j,
                  CHOOSE i \in inked : \A j \in inked : i >= j)

\* extract_text_after_prefix(): drop the first occurrence of the prefix,
\* whatever its case, then strip
extract_text_after_prefix(text, prefix) ==
  LET hits == {i \in 1..Len(text) : lower(text[i]) = lower(prefix)}
  IN  IF text = <<>> THEN <<>>
      ELSE IF hits = {} THEN strip(text)
      ELSE LET first == CHOOSE i \in hits : \A j \in hits : i <= j
           IN  strip(SubSeq(text, 1, first - 1) \o SubSeq(text, first + 1, Len(text)))

CaptionMedia == {"photo", "video", "animation", "document", "audio"}
MediaKinds == CaptionMedia \cup {"voice", "video_note", "sticker"}

\* is_media_with_caption()
is_media_with_caption(message) == message.media \cap CaptionMedia # {}

\* a content test that takes anything for content
has_any_content_always(message) == TRUE

\* has_any_content()
has_any_content(message) ==
  message.text # <<>> \/ message.media \cap MediaKinds # {}

\* a classifier that looks at video before photo
get_message_type_video_first(message) ==
  IF message.text # <<>> THEN "text"
  ELSE IF "video" \in message.media THEN "video"
  ELSE IF "photo" \in message.media THEN "photo"
  ELSE IF "animation" \in message.media THEN "animation"
  ELSE IF "document" \in message.media THEN "document"
  ELSE IF "audio" \in message.media THEN "audio"
  ELSE IF "voice" \in message.media THEN "voice"
  ELSE IF "video_note" \in message.media THEN "video_note"
  ELSE IF "sticker" \in message.media THEN "sticker"
  ELSE "unknown"

\* get_message_type()
get_message_type(message) ==
  IF message.text # <<>> THEN "text"
  ELSE IF "photo" \in message.media THEN "photo"
  ELSE IF "video" \in message.media THEN "video"
  ELSE IF "animation" \in message.media THEN "animation"
  ELSE IF "document" \in message.media THEN "document"
  ELSE IF "audio" \in message.media THEN "audio"
  ELSE IF "voice" \in message.media THEN "voice"
  ELSE IF "video_note" \in message.media THEN "video_note"
  ELSE IF "sticker" \in message.media THEN "sticker"
  ELSE "unknown"

\* ---- message_handler.py: filters ----

\* message.text or message.caption or ""
text_or_caption(message) ==
  IF message.text # <<>> THEN message.text ELSE message.caption

\* StartsWithAnon: text.lower().startswith(prefix)
StartsWithAnon(message) ==
  LET text == text_or_caption(message)
  IN  Len(text) >= 1 /\ lower(text[1]) = lower(command_prefix)

\* the type of each chat (message.chat.type)
chat_type(chat_id) ==
  IF chat_id = 1 THEN "supergroup" ELSE IF chat_id = 2 THEN "group" ELSE "private"

\* a handler registered without the chat-type filter
in_group_always(message) == TRUE

\* F.chat.type.in_({"group", "supergroup"})
in_group(message) == chat_type(message.chat_id) \in {"group", "supergroup"}

key_of_chat(message) == <<message.chat_id, 1>>
\* key = (chat_id, user_id), from message.chat.id and message.from_user.id
key_of(message) == <<message.chat_id, message.user_id>>

\* ---- the inbound messages ----
Message(key, text, caption, media, reply) ==
  [chat_id |-> key[1], user_id |-> key[2], text |-> text, caption |-> caption,
   media |-> media, reply |-> reply]

\* what a message may carry: the prefix alone, the prefix (in capitals) with a
\* payload, a plain text, a captioned photo, nothing sendable
Contents ==
  { [text |-> <<"@anon">>, caption |-> <<>>, media |-> {}],
    [text |-> <<"@ANON", " ", "hi">>, caption |-> <<>>, media |-> {}],
    [text |-> <<"hi">>, caption |-> <<>>, media |-> {}],
    [text |-> <<>>, caption |-> <<"hi">>, media |-> {"photo"}],
    [text |-> <<>>, caption |-> <<>>, media |-> {}] }

\* user 1 sends in chat 1 (a supergroup): a command, as a reply or not; a
\* plain text, as a reply or not; a captioned photo; a message with nothing
\* sendable.  In the private chat the same user sends the prefix or a text.
Messages ==
  {m \in {Message(<<1, 1>>, c.text, c.caption, c.media, r) :
            c \in Contents, r \in OptReply} :
     m.reply \in (IF StartsWithAnon(m) THEN CommandReplies
                  ELSE IF m.text # <<>> THEN FollowUpReplies ELSE {NoId})}
  \cup {Message(<<3, 1>>, c.text, c.caption, c.media, NoId) :
          c \in {c \in Contents : c.media = {} /\ Len(c.text) = 1}}

\* ---- message_processor.py ----

DeleteOutcomes == {"ok", "not_found", "forbidden", "too_old", "other"}

\* delete_original(): the value returned for each outcome of message.delete()
delete_original(outcome) == outcome \in {"ok", "not_found"}

\* a delete_original() that does not look at error_notifications
delete_notice_always(outcome, notifications) ==
  IF outcome = "forbidden" THEN "delete_failed"
  ELSE IF outcome = "too_old" THEN "too_old"
  ELSE "none"

\* delete_original(): the notice it asks _send_error for ("none": no notice)
delete_notice(outcome, notifications) ==
  IF ~notifications THEN "none"
  ELSE IF outcome = "forbidden" THEN "delete_failed"
  ELSE IF outcome = "too_old" THEN "too_old"
  ELSE "none"

\* a send that prefers the message's own reply target to the one passed
send_reply_to_own(message, reply_to_message_id) ==
  IF message.reply # NoId THEN message.reply ELSE reply_to_message_id

\* send_anonymous(): reply_to = reply_to_message_id or the message's own
send_reply_to(message, reply_to_message_id) ==
  IF reply_to_message_id # NoId THEN reply_to_message_id ELSE message.reply

\* senders that pass caption= for every medium
send_call_caption_all(message, text, reply_to) ==
  LET msg_type == get_message_type(message)
  IN  [kind |-> msg_type,
       text |-> IF msg_type = "text"
                  THEN (IF text # <<>> THEN text ELSE message.text)
                  ELSE <<>>,
       caption_arg |-> msg_type # "text",
       caption |-> IF msg_type # "text" THEN text ELSE <<>>,
       reply_to |-> reply_to]

\* _send_text .. _send_sticker: the arguments of the transport call
send_call(message, text, reply_to) ==
  LET msg_type == get_message_type(message)
  IN  [kind |-> msg_type,
       text |-> IF msg_type = "text"
                  THEN (IF text # <<>> THEN text ELSE message.text)
                  ELSE <<>>,
       caption_arg |-> msg_type \in CaptionMedia,
       caption |-> IF msg_type \in CaptionMedia THEN text ELSE <<>>,
       reply_to |-> reply_to]

\* ---- message_handler.py: the two handlers ----

\* handle_anon_command(): has_text or has_media
is_direct_text_only(message) ==
  extract_text_after_prefix(text_or_caption(message), command_prefix) # <<>>

\* has_text or has_media of handle_anon_command
is_direct(message) ==
  \/ extract_text_after_prefix(text_or_caption(message), command_prefix) # <<>>
  \/ is_media_with_caption(message)
  \/ message.media \cap {"voice", "video_note", "sticker"} # {}

\* handlers that go on whatever delete_original() returned
goes_on_always(mode, deleted) == TRUE

\* whether a handler goes on after delete_original() returned `deleted`:
\* the direct and the follow-up path return when it is false, the queue path
\* does not look at it
goes_on(mode, deleted) == mode = "queue" \/ deleted

\* handlers that both pass the text with the prefix stripped
send_text_stripped(mode, message) ==
  extract_text_after_prefix(text_or_caption(message), command_prefix)

\* the text a handler passes to send_anonymous()
send_text(mode, message) ==
  IF mode = "direct"
    THEN extract_text_after_prefix(text_or_caption(message), command_prefix)
    ELSE text_or_caption(message)

\* the reply_to_message_id a handler passes to send_anonymous()
send_reply_arg(mode, entry) ==
  IF mode = "direct" THEN NoId ELSE entry.reply_to_message_id

NoCall == [kind |-> "none", text |-> <<>>, caption_arg |-> FALSE,
           caption |-> <<>>, reply_to |-> NoId]

\* a handler task: pc names the transport call awaited ("body" before the
\* handler body runs); del is how message.delete() ended, call the arguments
\* of the send in flight, notice the key given to _send_error
Task(message, mode, pc) ==
  [pc |-> pc, msg |-> message, mode |-> mode, entry |-> None, del |-> "none",
   call |-> NoCall, notice |-> "none"]

Running == BagToSet(tasks)

\* ---- the observer of the handlers ----
\* a call made while handling an event: pop() of the QueueManager ("entry"
\* or "nothing" returned), message.delete() (how it ended), a send of the
\* anonymous copy (its arguments), a notice (its key), and the
\* asyncio.create_task() of _send_error
Entry(op, arg, ok, call) == [op |-> op, arg |-> arg, ok |-> ok, call |-> call]

NoEvent == [msg |-> None, log |-> <<>>]

Receive(message) ==
  handled' = IF handled = None THEN None ELSE [msg |-> message, log |-> <<>>]

Log(entries) ==
  handled' = IF handled = None THEN None ELSE [handled EXCEPT !.log = @ \o entries]

Spawn(task) ==
  /\ BagCardinality(tasks) < MaxTasks
  /\ tasks' = tasks (+) SetToBag({task})

\* task t goes on as task u / ends
Becomes(t, u) == tasks' = (tasks (-) SetToBag({t})) (+) SetToBag({u})
Ends(t) == tasks' = tasks (-) SetToBag({t})

\* The dispatcher offers a message to handle_anon_command first.  Its body
\* runs up to the first transport call, message.delete().
DispatchAnon(message) ==
  /\ StartsWithAnon(message) /\ in_group(message)
  /\ Spawn(Task(message, IF is_direct(message) THEN "direct" ELSE "queue", "delete"))
  /\ Receive(message)
  /\ UNCHANGED <<now, timeout, queue, ovars, lvars, error_notifications, fresh>>

\* InQueue: queue_manager.check(user_id, chat_id)
InQueue(message) == check_result(queue, key_of(message), now)

\* Otherwise the InQueue filter calls check(); when it passes in a group chat,
\* handle_queued_message is called.
DispatchQueued(message) ==
  /\ ~(StartsWithAnon(message) /\ in_group(message))
  /\ InQueue(message) /\ in_group(message)
  /\ Spawn(Task(message, "followup", "body"))
  /\ Receive(message)
  /\ UNCHANGED <<now, timeout, queue, ovars, lvars, error_notifications, fresh>>

\* No handler matches: the message is not this bot's concern.
DispatchIgnored(message) ==
  /\ ~(StartsWithAnon(message) /\ in_group(message))
  /\ ~(InQueue(message) /\ in_group(message))
  /\ Receive(message)
  /\ UNCHANGED <<now, timeout, queue, ovars, lvars, error_notifications, tasks, fresh>>

\* send_anonymous() up to its transport call
send_task(u) ==
  [u EXCEPT !.pc = "send",
            !.call = send_call(u.msg, send_text(u.mode, u.msg),
                       send_reply_to(u.msg, send_reply_arg(u.mode, u.entry)))]

\* handle_queued_message() up to its first transport call: the prefix test,
\* has_any_content(), pop(), and the test of what pop() returned.
handle_queued_message(t) ==
  /\ t.pc = "body"
  /\ IF StartsWithAnon(t.msg) \/ ~has_any_content(t.msg)
       THEN /\ Ends(t)
            /\ UNCHANGED <<queue, fresh, handled>>
       ELSE LET entry == pop_result(queue, key_of(t.msg), now) IN
            /\ queue' = pop_queue(queue, key_of(t.msg))
            /\ Log(<<Entry("pop", IF entry = None THEN "nothing" ELSE "entry",
                           entry # None, NoCall)>>)
            /\ fresh' = [fresh EXCEPT ![key_of(t.msg)] = @ /\ entry = None]
            /\ IF entry = None THEN Ends(t)
               ELSE Becomes(t, [t EXCEPT !.entry = entry, !.pc = "delete"])
  /\ UNCHANGED <<now, timeout, ovars, lvars, error_notifications>>

\* The handler resumes after delete_original() returned `deleted`; t is the
\* task that awaited, u the same with what the transport calls told it.
after_delete(t, u, deleted) ==
  IF ~goes_on(u.mode, deleted)
    THEN /\ Ends(t)
         /\ UNCHANGED <<queue, fresh>>
  ELSE IF u.mode = "queue"
    THEN /\ queue' = add_queue(queue, key_of(u.msg), u.msg.reply, now, timeout)
         /\ fresh' = [fresh EXCEPT ![key_of(u.msg)] = TRUE]
         /\ Ends(t)
  ELSE /\ IF get_message_type(u.msg) = "unknown"
            THEN Ends(t)  \* send_anonymous() returns False, no transport call
            ELSE Becomes(t, send_task(u))
       /\ UNCHANGED <<queue, fresh>>

\* message.delete() of delete_original() ends with `outcome`.
DeleteOriginal(t, outcome) ==
  LET u == [t EXCEPT !.del = outcome]
      key == delete_notice(outcome, error_notifications)
  IN
  /\ t.pc = "delete"
  /\ IF key # "none"
       THEN /\ Becomes(t, [u EXCEPT !.pc = "notice", !.notice = key])
            /\ UNCHANGED <<queue, fresh>>
       ELSE after_delete(t, u, delete_original(outcome))
  /\ Log(<<Entry("delete", outcome, delete_original(outcome), NoCall)>>)
  /\ UNCHANGED <<now, timeout, ovars, lvars, error_notifications>>

\* The transport call of send_anonymous() ends: with success, or with a
\* TelegramAPIError.
SendAnonymous(t, ok) ==
  /\ t.pc = "send"
  /\ IF ~ok /\ error_notifications
       THEN Becomes(t, [t EXCEPT !.pc = "notice", !.notice = "unknown"])
       ELSE Ends(t)
  /\ Log(<<Entry("send", t.call.kind, ok, t.call)>>)
  /\ UNCHANGED <<now, timeout, queue, ovars, lvars, error_notifications, fresh>>

\* bot.send_message() of _send_error() ends: posted, and the delayed delete
\* of the notice is scheduled, or failed (swallowed).  The caller resumes.
\* (The delayed delete itself touches neither the queue nor a handler task.)
SendError(t, ok) ==
  /\ t.pc = "notice"
  /\ IF t.notice = "unknown"
       THEN /\ Ends(t)
            /\ UNCHANGED <<queue, fresh>>
       ELSE after_delete(t, t, FALSE)
  /\ Log(<<Entry("notice", t.notice, ok, NoCall)>>
         \o IF ok THEN <<Entry("create_task", "_delayed_delete", TRUE, NoCall)>>
                  ELSE <<>>)
  /\ UNCHANGED <<now, timeout, ovars, lvars, error_notifications>>

\* _cleanup_loop(): one pass, _cleanup_expired()
cleanup_loop ==
  /\ queue' = cleanup_queue(queue, now)
  /\ UNCHANGED <<now, timeout, ovars, hvars, lvars>>

Next ==
  \/ \E message \in Messages : DispatchAnon(message)
  \/ \E message \in Messages : DispatchQueued(message)
  \/ \E message \in Messages : DispatchIgnored(message)
  \/ \E t \in Running : handle_queued_message(t)
  \/ \E t \in Running, outcome \in DeleteOutcomes : DeleteOriginal(t, outcome)
  \/ \E t \in Running, ok \in BOOLEAN : SendAnonymous(t, ok)
  \/ \E t \in Running, ok \in BOOLEAN : SendError(t, ok)
  \/ cleanup_loop
  \/ Clock

Init == Constructed({MaxTimeout}, None)

Spec == Init /\ [][Next]_vars

\* ---- the handlers observed, one event at a time ----

\* what an event may carry, over every kind get_message_type() tells apart:
\* a text (the prefix alone, the prefix with a payload, a plain text, a text
\* with the prefix inside); one medium, captioned or not; and content of no
\* recognized kind (media = {}), captioned or not
EventContents ==
  {[text |-> x, caption |-> <<>>, media |-> {}] :
     x \in {<<"@anon">>, <<"@ANON", " ", "hi">>, <<"hi">>, <<"hi", " ", "@anon">>}}
  \cup {[text |-> <<>>, caption |-> x, media |-> {kind}] :
          kind \in CaptionMedia, x \in {<<>>, <<"hi">>, <<"@anon", " ", "hi">>}}
  \cup {[text |-> <<>>, caption |-> <<"@anon">>, media |-> {"photo"}]}
  \cup {[text |-> <<>>, caption |-> x, media |-> {kind}] :
          kind \in MediaKinds \ CaptionMedia,
          x \in {<<>>, <<"@anon", " ", "hi">>}}
  \cup {[text |-> <<>>, caption |-> x, media |-> {}] :
          x \in {<<>>, <<"@anon">>, <<"@anon", " ", "hi">>}}

\* user 1 sends them in chat 1 (a supergroup); a text may be a reply (a
\* command to message 1, another text to message 2); the same user sends a
\* command in chat 2 (a group), and a command, a text and a captioned photo
\* in the private chat 3
EventMessages ==
  {m \in {Message(<<1, 1>>, c.text, c.caption, c.media, r) :
            c \in EventContents, r \in OptReply} :
     m.reply \in (IF m.text = <<>> THEN {NoId}
                  ELSE IF StartsWithAnon(m) THEN CommandReplies
                  ELSE FollowUpReplies)}
  \cup {Message(<<2, 1>>, <<"@anon">>, <<>>, {}, NoId)}
  \cup {Message(<<3, 1>>, c.text, c.caption, c.media, NoId) :
          c \in {c \in EventContents :
                   \/ c.media = {} /\ c.text \in {<<"@anon">>, <<"hi">>}
                   \/ c.media = {"photo"} /\ Len(c.caption) = 3}}

\* the router is offered the next event when the last one is handled
Serial == tasks = EmptyBag

EventNext ==
  \/ \E message \in EventMessages : Serial /\ DispatchAnon(message)
  \/ \E message \in EventMessages : Serial /\ DispatchQueued(message)
  \/ \E message \in EventMessages : Serial /\ DispatchIgnored(message)
  \/ \E t \in Running : handle_queued_message(t)
  \/ \E t \in Running, outcome \in DeleteOutcomes : DeleteOriginal(t, outcome)
  \/ \E t \in Running, ok \in BOOLEAN : SendAnonymous(t, ok)
  \/ \E t \in Running, ok \in BOOLEAN : SendError(t, ok)
  \/ cleanup_loop
  \/ Clock

EventInit == Constructed({MaxTimeout}, NoEvent)

EventSpec == EventInit /\ [][EventNext]_vars

\* ---- claims about the handlers ----

\* C7: deletion failure blocks the repost: in direct and in follow-up mode a
\* send is invoked for a message only after its delete returned success
\* ("not found" counting as success); after forbidden, too-old or any other
\* failure no send is invoked.
C7_DeleteBlocksRepost ==
  \A t \in Running :
    /\ (t.pc = "send" \/ t.call # NoCall) => t.del \in {"ok", "not_found"}
    /\ t.del \in {"forbidden", "too_old", "other"} => (t.pc # "send" /\ t.call = NoCall)

\* C7 witness: a follow-up is being reposted after its delete ended "not
\* found", while a direct command whose delete was forbidden has sent nothing.
C7_Witness ==
  \E t1, t2 \in Running :
    /\ t1.mode = "followup" /\ t1.pc = "send" /\ t1.del = "not_found"
    /\ t2.mode = "direct" /\ t2.pc = "notice" /\ t2.del = "forbidden"
    /\ t2.call = NoCall

\* the follow-up task t pops a live entry and goes on to delete and repost
Consumes(t) ==
  /\ handle_queued_message(t)
  /\ \E u \in BagToSet(tasks') : u.mode = "followup" /\ u.pc = "delete" /\ u.msg = t.msg
  /\ BagCardinality(tasks') = BagCardinality(tasks)

\* C8: a pending entry is consumed at most once: a follow-up gets an entry
\* from pop() only if an add() was made that no earlier follow-up has got,
\* however the follow-ups of a key interleave between check() and pop().
C8_ConsumedAtMostOnce ==
  [][\A t \in Running : Consumes(t) => fresh[key_of(t.msg)]]_vars

\* C8 witness: two follow-ups of one key passed check(); one has popped the
\* entry, still live, the other has yet to call pop().
C8_Witness ==
  \E t1, t2 \in Running :
    /\ t1.mode = "followup" /\ t1.pc = "delete" /\ t1.entry # None
    /\ t1.entry.expires_at > now
    /\ t2.mode = "followup" /\ t2.pc = "body" /\ key_of(t2.msg) = key_of(t1.msg)
    /\ ~fresh[key_of(t1.msg)]

\* C9 as claimed: in follow-up mode the send carries the popped entry's
\* stored reply-target, and none when the entry stored none.
C9_ReplyTargetIsEntrys ==
  \A t \in Running :
    (t.mode = "followup" /\ t.pc = "send") =>
      t.call.reply_to = t.entry.reply_to_message_id

\* C9, amended: in follow-up mode the send carries the popped entry's stored
\* reply-target when it stored one, and otherwise the follow-up's own
\* reply-target (none if the follow-up was not a reply).
C9_ReplyTargetEntryElseOwn ==
  \A t \in Running :
    (t.mode = "followup" /\ t.pc = "send") =>
      t.call.reply_to = IF t.entry.reply_to_message_id # NoId
                          THEN t.entry.reply_to_message_id
                          ELSE t.msg.reply

\* C9 witness: a follow-up that is itself a reply is reposted under the
\* reply-target its entry stored.
C9_Witness ==
  \E t \in Running :
    /\ t.mode = "followup" /\ t.pc = "send"
    /\ t.entry.reply_to_message_id # NoId /\ t.msg.reply # NoId
    /\ t.msg.reply # t.entry.reply_to_message_id
    /\ t.call.reply_to = t.entry.reply_to_message_id

\* C10 as claimed: in queue mode, once deleting the prefix-only message has
\* failed for lack of permission, the handler registers no entry: its steps
\* leave the key's slot in the map as it was.
C10_ForbiddenRegistersNothing ==
  [][\A t \in Running :
       (/\ t.mode = "queue"
        /\ \/ DeleteOriginal(t, "forbidden")
           \/ (t.del = "forbidden" /\ \E ok \in BOOLEAN : SendError(t, ok)))
       => queue'[key_of(t.msg)] = queue[key_of(t.msg)]]_vars

\* ---- claims about the handling of one event ----

\* an event with no text and none of the nine media kinds, not a command
Contentless(message) ==
  /\ message.text = <<>> /\ message.media = {}
  /\ (message.caption = <<>> \/ lower(message.caption[1]) # "@anon")

Live(key) == queue[key] # None /\ queue[key].expires_at > now

\* C11: a non-prefixed event with no sendable content from a (chat,user)
\* with a live pending entry is ignored without popping: the handler ends,
\* the map is unchanged, no call (pop, delete, send, notice) is made for it,
\* and the entry still matches (check() is as before).
C11_EmptyFollowUpKeepsEntry ==
  [][\A t \in Running :
       (handle_queued_message(t) /\ Contentless(t.msg) /\ Live(key_of(t.msg)))
       => /\ queue' = queue
          /\ tasks' = tasks (-) SetToBag({t})
          /\ handled' = handled /\ handled.log = <<>>
          /\ check_result(queue', key_of(t.msg), now')]_vars

\* C11 witness: the last event was contentless, its handling is over with no
\* call made, and the entry it met, registered before it, is still live.
C11_Witness ==
  /\ handled.msg # None /\ Contentless(handled.msg) /\ in_group(handled.msg)
  /\ handled.log = <<>> /\ tasks = EmptyBag
  /\ Live(key_of(handled.msg)) /\ fresh[key_of(handled.msg)]

\* The sweep loop sleeps ten seconds and sweeps, for ever, and time goes on.
TimeoutSpec == EventSpec /\ WF_vars(Clock) /\ WF_vars(cleanup_loop)

\* the event `message` is offered to the router in this step
Offered(message) ==
  DispatchAnon(message) \/ DispatchQueued(message) \/ DispatchIgnored(message)

\* C12: timeout drops the request silently.  From its expiry on an entry
\* fails check(); a non-command event of the user offered then starts no
\* handler, and a follow-up that passed check() earlier but reaches pop()
\* after the expiry gets nothing and ends with no delete and no send; the
\* sweep posts nothing and starts nothing; and every entry whose expiry the
\* clock can reach is eventually gone from the map for good.
C12_TimeoutDropsSilently ==
  /\ [](\A key \in Keys :
          (queue[key] # None /\ queue[key].expires_at <= now)
            => ~check_result(queue, key, now))
  /\ [][(/\ handled'.msg # None /\ Offered(handled'.msg)
          /\ ~StartsWithAnon(handled'.msg) /\ ~Live(key_of(handled'.msg)))
         => (UNCHANGED <<tasks, queue>> /\ handled'.log = <<>>)]_vars
  /\ [][\A t \in Running :
          (handle_queued_message(t) /\ ~Live(key_of(t.msg)))
          => /\ tasks' = tasks (-) SetToBag({t})
             /\ \A i \in 1..Len(handled'.log) : handled'.log[i].op = "pop"
                                                 /\ ~handled'.log[i].ok]_vars
  /\ [][cleanup_loop => UNCHANGED <<tasks, handled>>]_vars
  /\ <>[](\A key \in Keys :
            queue[key] # None => queue[key].expires_at > MaxTime)

\* C12 witness: a request was registered and never matched, its entry is
\* gone, and a text of the same user offered afterwards caused no call.
C12_Witness ==
  /\ handled.msg # None /\ key_of(handled.msg) = <<1, 1>>
  /\ handled.msg.text = <<"hi">> /\ handled.log = <<>> /\ tasks = EmptyBag
  /\ fresh[<<1, 1>>] /\ queue[<<1, 1>>] = None

\* a command with nothing after the prefix and no medium
PrefixOnly(message) ==
  LET x == IF message.text # <<>> THEN message.text ELSE message.caption
  IN  message.media = {} /\ Len(x) = 1 /\ lower(x[1]) = "@anon"

HasOp(log, ops) == \E i \in 1..Len(log) : log[i].op \in ops

\* message.delete() of task t returns in this step, or the notice that
\* delete_original() posts after it
DeleteReturns(t) ==
  \/ \E outcome \in DeleteOutcomes : DeleteOriginal(t, outcome)
  \/ \E ok \in BOOLEAN : SendError(t, ok)

\* C13: queue mode ordering.  For a prefix-only group event the handler
\* first attempts the delete; the entry is written only in a step in which
\* delete_original() returns, with the delete logged first, and it is the
\* entry of the event's (chat,user) with the event's own reply-target and
\* expiry = the time of registration + timeout; no send and no pop is made
\* for the event.
C13_QueueModeOrder ==
  /\ [](\A t \in Running : t.mode = "queue" =>
          /\ PrefixOnly(t.msg) /\ t.pc \in {"delete", "notice"} /\ t.call = NoCall
          /\ t.pc = "delete" => handled.log = <<>>)
  /\ [](handled.msg # None /\ PrefixOnly(handled.msg)
          => ~HasOp(handled.log, {"send", "pop"}))
  /\ [][\A key \in Keys : queue'[key] \notin {queue[key], None} =>
          \E t \in Running :
            /\ t.mode = "queue" /\ key_of(t.msg) = key /\ DeleteReturns(t)
            /\ handled'.log # <<>> /\ handled'.log[1].op = "delete"]_vars
  /\ [][\A t \in Running :
          (t.mode = "queue" /\ DeleteReturns(t) /\ tasks' = EmptyBag) =>
            queue'[key_of(t.msg)] =
              QueueEntry(t.msg.user_id, t.msg.chat_id, now + timeout, t.msg.reply)]_vars

\* C13 witness: a prefix-only reply to message 1 was handled: one delete,
\* which succeeded, then the entry, with reply-target 1 and the full timeout.
C13_Witness ==
  /\ handled.msg # None /\ PrefixOnly(handled.msg) /\ handled.msg.reply = 1
  /\ Len(handled.log) = 1 /\ handled.log[1].op = "delete" /\ handled.log[1].ok
  /\ tasks = EmptyBag
  /\ queue[key_of(handled.msg)] =
       QueueEntry(handled.msg.user_id, handled.msg.chat_id, now + timeout, 1)

\* C14 as claimed: unknown content is a silent no-op: for an event whose
\* kind is unknown (a prefixed caption with text after the prefix included)
\* no send is made, the original is not deleted, and no notice is posted.
C14_UnknownIsNoOp ==
  (handled.msg # None /\ get_message_type(handled.msg) = "unknown")
    => ~HasOp(handled.log, {"delete", "send", "notice"})

\* C15: every send of a voice, a video_note or a sticker, in direct and in
\* follow-up mode, is made without a caption argument, whatever text the
\* handler passed; every send of a photo, video, animation, document or
\* audio passes caption = the text the handler passed, none when it passed
\* none.
C15_CaptionByKind ==
  \A t \in Running : t.pc = "send" =>
    LET passed == IF t.mode = "direct"
                    THEN extract_text_after_prefix(text_or_caption(t.msg), "@anon")
                    ELSE text_or_caption(t.msg)
    IN  /\ t.call.kind = get_message_type(t.msg)
        /\ t.call.kind \in {"voice", "video_note", "sticker"}
             => (~t.call.caption_arg /\ t.call.caption = <<>>)
        /\ t.call.kind \in {"photo", "video", "animation", "document", "audio"}
             => (t.call.caption_arg /\ t.call.caption = passed)

\* C15 witness: a voice message captioned "@anon hi" is being reposted in
\* direct mode: the handler passed "hi", the send has no caption.
C15_Witness ==
  \E t \in Running :
    /\ t.pc = "send" /\ t.mode = "direct" /\ t.call.kind = "voice"
    /\ extract_text_after_prefix(text_or_caption(t.msg), "@anon") = <<"hi">>
    /\ ~t.call.caption_arg

\* the notice a failed delete is to cause ("unknown" is the generic one)
NoticeOf(outcome) ==
  IF outcome = "forbidden" THEN "delete_failed"
  ELSE IF outcome = "too_old" THEN "too_old" ELSE "unknown"

\* C16 as claimed: with notices enabled every failed delete causes a notice,
\* its own for each of forbidden, too old and generic API failure: it is
\* being posted, or was, and once posted its delayed delete is scheduled.
C16_EveryDeleteFailureNoticed ==
  (error_notifications /\ handled.msg # None) =>
    \A i \in 1..Len(handled.log) :
      LET e == handled.log[i] IN
      /\ (e.op = "delete" /\ ~e.ok) =>
           \/ i = Len(handled.log) /\ \E t \in Running :
                 t.pc = "notice" /\ t.notice = NoticeOf(e.arg)
           \/ /\ i < Len(handled.log)
              /\ handled.log[i + 1].op = "notice"
              /\ handled.log[i + 1].arg = NoticeOf(e.arg)
      /\ (e.op = "notice" /\ e.ok) =>
           (i < Len(handled.log) /\ handled.log[i + 1].op = "create_task")

\* C17: notices are suppressible.  With error_notifications false no notice
\* is posted or being posted on any path; with either setting a failed
\* delete is followed by no send; and when the posting of a notice ends,
\* posted or failed, the handler goes on the same way: it ends, sending
\* nothing, and the map changes only as the queue path's add() changes it.
C17_NoticesSuppressible ==
  /\ [](~error_notifications =>
          /\ ~HasOp(handled.log, {"notice", "create_task"})
          /\ \A t \in Running : t.pc # "notice" /\ t.notice = "none")
  /\ [](\A i \in 1..Len(handled.log) :
          (handled.log[i].op = "delete" /\ ~handled.log[i].ok) =>
            /\ ~HasOp(handled.log, {"send"})
            /\ \A t \in Running : t.pc # "send")
  /\ [][\A t \in Running : (\E ok \in BOOLEAN : SendError(t, ok)) =>
          /\ tasks' = tasks (-) SetToBag({t})
          /\ queue' = IF t.mode = "queue"
                        THEN add_queue(queue, key_of(t.msg), t.msg.reply, now, timeout)
                        ELSE queue]_vars

\* C17 witness: with notices disabled, a direct command whose delete was
\* forbidden has been handled: the failed delete is all that was done.
C17_Witness ==
  /\ ~error_notifications /\ tasks = EmptyBag
  /\ handled.msg # None /\ ~PrefixOnly(handled.msg)
  /\ Len(handled.log) = 1 /\ handled.log[1].op = "delete"
  /\ handled.log[1].arg = "forbidden"

\* ---- QueueManager.start() / stop() and the sweep tasks ----
\* A _cleanup_loop task is "sleep"ing (in asyncio.sleep, or about to be),
\* "cancelled" (cancel() was called on it, CancelledError not yet thrown
\* into it) or "ended".  start() and stop() are called one after the other.

\* start(): create the task, keep it in _cleanup_task
start ==
  /\ stop_pc = 0
  /\ Len(loops) < MaxStarts
  /\ loops' = Append(loops, "sleep")
  /\ cleanup_task' = Len(loops) + 1
  /\ stopped' = FALSE
  /\ UNCHANGED <<now, timeout, queue, ovars, hvars, stop_pc, lock, procs>>

\* stop(): with no task, or a task that has ended, it returns at once;
\* otherwise it cancels the task and awaits it
stop ==
  /\ stop_pc = 0
  /\ IF cleanup_task = 0 \/ loops[cleanup_task] = "ended"
       THEN /\ stopped' = TRUE
            /\ UNCHANGED <<loops, stop_pc>>
       ELSE /\ loops' = [loops EXCEPT ![cleanup_task] = "cancelled"]
            /\ stop_pc' = cleanup_task
            /\ UNCHANGED stopped
  /\ UNCHANGED <<now, timeout, queue, ovars, hvars, cleanup_task, lock, procs>>

\* stop(): the awaited task has ended, stop() returns
stop_returns ==
  /\ stop_pc # 0 /\ loops[stop_pc] = "ended"
  /\ stop_pc' = 0
  /\ stopped' = TRUE
  /\ UNCHANGED <<now, timeout, queue, ovars, hvars, cleanup_task, loops, lock, procs>>

\* _cleanup_loop(): the sleep of task i is over, it sweeps and sleeps again
loop_sweeps(i) ==
  /\ loops[i] = "sleep"
  /\ cleanup_expired
  /\ UNCHANGED <<hvars, lvars>>

\* _cleanup_loop(): CancelledError is thrown into task i, which breaks
loop_cancelled(i) ==
  /\ loops[i] = "cancelled"
  /\ loops' = [loops EXCEPT ![i] = "ended"]
  /\ UNCHANGED <<now, timeout, queue, ovars, hvars, cleanup_task, stop_pc, stopped,
                 lock, procs>>

LifeNext ==
  \/ start
  \/ stop
  \/ stop_returns
  \/ \E i \in 1..Len(loops) : loop_sweeps(i)
  \/ \E i \in 1..Len(loops) : loop_cancelled(i)
  \/ CallAdd
  \/ Clock

LifeSpec == QueueInit /\ [][LifeNext]_vars

\* C18 as claimed: after any sequence of start()/stop() calls that ends with
\* stop() having returned, no sweep task is still running, so none touches
\* the map; stop() returns only when the task it cancelled has ended.
C18_StopLeavesNoSweep ==
  /\ stopped => \A i \in 1..Len(loops) : loops[i] = "ended"
  /\ stop_pc # 0 => ~stopped

Private(message) == chat_type(message.chat_id) \notin {"group", "supergroup"}

\* C19: only events of group and supergroup chats are acted on.  Offering
\* the router an event of another chat type, prefixed or not, starts no
\* handler and changes neither the map nor anything else but the record of
\* the event offered; no call is ever logged for such an event; and neither
\* handler's filters would pass it were a live entry there for its
\* (chat,user).
C19_GroupsOnly ==
  /\ [][(handled'.msg # None /\ Offered(handled'.msg) /\ Private(handled'.msg))
         => (UNCHANGED <<tasks, queue, fresh>> /\ handled'.log = <<>>)]_vars
  /\ []((handled.msg # None /\ Private(handled.msg))
          => (handled.log = <<>> /\ tasks = EmptyBag))
  /\ [](\A m \in {m \in EventMessages : Private(m)} :
          LET q == [queue EXCEPT ![key_of(m)] =
                     QueueEntry(m.user_id, m.chat_id, now + 1, NoId)]
          IN  /\ ~(StartsWithAnon(m) /\ in_group(m))
              /\ ~(check_result(q, key_of(m), now) /\ in_group(m)))

\* C19 witness: the prefix was sent in the private chat while the user's
\* request in the supergroup was pending: nothing was done for it.
C19_Witness ==
  /\ handled.msg # None /\ Private(handled.msg) /\ handled.msg.text = <<"@anon">>
  /\ handled.log = <<>> /\ tasks = EmptyBag
  /\ Live(<<1, 1>>) /\ queue[key_of(handled.msg)] = None

\* C20: in follow-up mode the repost carries the event's own text or
\* caption verbatim, and the steps are pop, then the delete of the
\* follow-up, then the send: whenever a pop is logged for the event it is
\* the first call, a delete is the second and comes only after a pop that
\* returned an entry, a send is the third and comes only after a delete
\* that succeeded; the send of a text carries exactly the event's text, the
\* send of a photo, video, animation, document or audio exactly its caption
\* (none when it had none); the same holds of a send still in flight.
C20_FollowUpVerbatim ==
  LET log == handled.log
      Verbatim(m, call) ==
        /\ call.kind = "text" => call.text = m.text
        /\ call.kind \in {"photo", "video", "animation", "document", "audio"}
             => call.caption = m.caption
  IN
  /\ (log # <<>> /\ log[1].op = "pop") =>
       \A i \in 1..Len(log) :
         /\ log[i].op = "pop" => i = 1
         /\ log[i].op = "delete" => (i = 2 /\ log[1].ok)
         /\ log[i].op = "send" =>
              (i = 3 /\ log[2].op = "delete" /\ log[2].ok
                 /\ Verbatim(handled.msg, log[i].call))
  /\ \A t \in Running : (t.mode = "followup" /\ t.pc = "send") =>
       /\ Len(log) = 2 /\ log[1].op = "pop" /\ log[2].op = "delete"
       /\ Verbatim(t.msg, t.call)

\* C20 witness: the follow-up "hi @anon" was handled by a pop, a delete and
\* a send of the text as it was, the prefix inside it included.
C20_Witness ==
  /\ handled.msg # None /\ handled.msg.text = <<"hi", " ", "@anon">>
  /\ Len(handled.log) = 3 /\ handled.log[1].op = "pop"
  /\ handled.log[2].op = "delete" /\ handled.log[3].op = "send"
  /\ handled.log[3].ok /\ handled.log[3].call.text = <<"hi", " ", "@anon">>

\* ---- the classifier on every combination of payload fields ----

\* text present or absent, and each of the eight media fields present or not
FieldCombinations ==
  {Message(<<1, 1>>, x, <<>>, media, NoId) :
     x \in {<<>>, <<"hi">>}, media \in SUBSET MediaKinds}

\* get_message_type() and has_any_content() are applied to a message
classify(message) ==
  /\ handled' = [msg |-> message,
                 log |-> <<Entry("classify", get_message_type(message),
                                 has_any_content(message), NoCall)>>]
  /\ UNCHANGED <<now, timeout, queue, ovars, lvars, error_notifications, tasks, fresh>>

ClassifyNext == \E message \in FieldCombinations : classify(message)

ClassifySpec == EventInit /\ [][ClassifyNext]_vars

\* the order of precedence of the payload fields
Precedence ==
  <<"text", "photo", "video", "animation", "document", "audio", "voice",
    "video_note", "sticker">>

Present(message, field) ==
  IF field = "text" THEN message.text # <<>> ELSE field \in message.media

\* C21: the classifier is total and exclusive: on every combination of
\* present and absent payload fields get_message_type() returns the first
\* present field in the order of precedence, "unknown" exactly when none is
\* present, and has_any_content() is true exactly when the tag is not
\* "unknown".
C21_ClassifierTotalExclusive ==
  handled.log # <<>> =>
    LET m == handled.msg
        tag == handled.log[1].arg
        present == {i \in 1..Len(Precedence) : Present(m, Precedence[i])}
    IN  /\ tag \in {Precedence[i] : i \in 1..Len(Precedence)} \cup {"unknown"}
        /\ tag = "unknown" <=> present = {}
        /\ present # {} =>
             tag = Precedence[CHOOSE i \in present : \A j \in present : i <= j]
        /\ handled.log[1].ok <=> tag # "unknown"

\* C21 witness: a message with no text and with photo, video and sticker
\* present was classified "photo" and found to have content.
C21_Witness ==
  /\ handled.log # <<>> /\ handled.msg.text = <<>>
  /\ handled.msg.media = {"photo", "video", "sticker"}
  /\ handled.log[1].arg = "photo" /\ handled.log[1].ok

\* ---- the lock of the QueueManager, step by step ----
\* Each task runs until it awaits: the lock (when another task holds it), or
\* a transport call.  The body of an `async with self._lock:` block has no
\* await; it is split here only where the code makes two accesses to the map.

LockOps == {"add", "pop", "check", "sweep"}

takes_lock_but_sweep(op) == op # "sweep"
\* add(), pop(), check() and _cleanup_expired() each wrap their access to
\* _queue in `async with self._lock:`
takes_lock(op) == op \in LockOps

lock_on_exit_kept(op, p) == IF op = "pop" THEN p ELSE 0
\* leaving the `async with` block releases the lock: its holder afterwards
lock_on_exit(op, p) == 0

\* the pc of a task about to enter a block, inside it, and the operation
WantOp == [add_want |-> "add", pop_want |-> "pop", check_want |-> "check",
           sweep_want |-> "sweep"]
BodyOf == [add |-> "add_in", pop |-> "pop_in", check |-> "check_in",
           sweep |-> "scan"]
\* the pcs at which a task awaits a transport call
TransportPcs == {"delete", "send", "notice_delete", "notice_send"}
\* the pcs inside a block
BodyPcs == {"add_in", "pop_in", "check_in", "scan", "remove"}

lockframe == <<now, timeout, ovars, hvars, cleanup_task, loops, stop_pc, stopped>>

Goes(p, task) == procs' = [procs EXCEPT ![p] = task]

\* what was read from the map, as a map with that entry alone
Read(p) == [k \in Keys |-> IF k = procs[p].key THEN procs[p].entry ELSE None]

\* A handler starts on an event of user and chat `key`: handle_anon_command
\* runs to message.delete(); for any other message the InQueue filter calls
\* check().
begin(p, role, key, reply) ==
  /\ p # SweepProc /\ procs[p].pc = "idle"
  /\ Goes(p, [IdleTask EXCEPT !.role = role, !.key = key, !.reply = reply,
                !.pc = IF role = "followup" THEN "check_want" ELSE "delete"])
  /\ UNCHANGED <<queue, lock, lockframe>>

\* `async with self._lock:` is entered
acquire(p) ==
  /\ procs[p].pc \in DOMAIN WantOp
  /\ LET op == WantOp[procs[p].pc] IN
       /\ IF takes_lock(op) THEN lock = 0 /\ lock' = p ELSE UNCHANGED lock
       /\ Goes(p, [procs[p] EXCEPT !.pc = BodyOf[op]])
  /\ UNCHANGED <<queue, lockframe>>

\* check(): entry = self._queue.get(key)
check_in(p) ==
  /\ procs[p].pc = "check_in"
  /\ Goes(p, [procs[p] EXCEPT !.entry = queue[procs[p].key], !.pc = "check_out"])
  /\ lock' = lock_on_exit("check", p)
  /\ UNCHANGED <<queue, lockframe>>

\* check() returns, after the lock: the filter passes and
\* handle_queued_message calls pop(), or the event is dropped
check_out(p) ==
  /\ procs[p].pc = "check_out"
  /\ Goes(p, IF check_result(Read(p), procs[p].key, now)
               THEN [procs[p] EXCEPT !.pc = "pop_want", !.entry = None]
               ELSE IdleTask)
  /\ UNCHANGED <<queue, lock, lockframe>>

\* pop(): entry = self._queue.pop(key, None)
pop_in(p) ==
  /\ procs[p].pc = "pop_in"
  /\ queue' = pop_queue(queue, procs[p].key)
  /\ Goes(p, [procs[p] EXCEPT !.entry = queue[procs[p].key], !.pc = "pop_out"])
  /\ lock' = lock_on_exit("pop", p)
  /\ UNCHANGED lockframe

\* pop() returns, after the lock: with an entry the handler goes on to
\* message.delete(), with None it ends
pop_out(p) ==
  /\ procs[p].pc = "pop_out"
  /\ Goes(p, IF pop_result(Read(p), procs[p].key, now) # None
               THEN [procs[p] EXCEPT !.pc = "delete", !.entry = None]
               ELSE IdleTask)
  /\ UNCHANGED <<queue, lock, lockframe>>

\* the handler resumes after delete_original(): add() reads the clock before
\* it asks for the lock
resume(p, deleted) ==
  IF ~goes_on(procs[p].role, deleted) THEN IdleTask
  ELSE IF procs[p].role = "queue"
    THEN [procs[p] EXCEPT !.pc = "add_want", !.at = now]
  ELSE [procs[p] EXCEPT !.pc = "send"]

\* message.delete() ends
delete_returns(p, outcome) ==
  /\ procs[p].pc = "delete"
  /\ Goes(p, IF delete_notice(outcome, error_notifications) # "none"
               THEN [procs[p] EXCEPT !.pc = "notice_delete"]
               ELSE resume(p, delete_original(outcome)))
  /\ UNCHANGED <<queue, lock, lockframe>>

\* a transport call other than message.delete() ends: the send of the copy
\* (ok or not), the notice after a failed delete, the notice after a failed
\* send
transport_returns(p, ok) ==
  /\ procs[p].pc \in TransportPcs \ {"delete"}
  /\ Goes(p, IF procs[p].pc = "notice_delete" THEN resume(p, FALSE)
             ELSE IF procs[p].pc = "send" /\ ~ok /\ error_notifications
               THEN [procs[p] EXCEPT !.pc = "notice_send"]
             ELSE IdleTask)
  /\ UNCHANGED <<queue, lock, lockframe>>

\* add(): self._queue[key] = QueueEntry(...)
add_in(p) ==
  /\ procs[p].pc = "add_in"
  /\ queue' = add_queue(queue, procs[p].key, procs[p].reply, procs[p].at, timeout)
  /\ Goes(p, IdleTask)
  /\ lock' = lock_on_exit("add", p)
  /\ UNCHANGED lockframe

\* _cleanup_loop(): asyncio.sleep() ends; _cleanup_expired() reads the clock
\* before it asks for the lock
wake(p) ==
  /\ procs[p].pc = "sleep"
  /\ Goes(p, [procs[p] EXCEPT !.pc = "sweep_want", !.at = now])
  /\ UNCHANGED <<queue, lock, lockframe>>

\* _cleanup_expired(): expired_keys = [key for key, entry in ... ]
scan(p) ==
  /\ procs[p].pc = "scan"
  /\ Goes(p, [procs[p] EXCEPT !.expired = expired_keys(queue, procs[p].at),
                              !.pc = "remove"])
  /\ UNCHANGED <<queue, lock, lockframe>>

\* _cleanup_expired(): for key in expired_keys: del self._queue[key]
remove(p) ==
  /\ procs[p].pc = "remove"
  /\ queue' = [k \in Keys |-> IF k \in procs[p].expired THEN None ELSE queue[k]]
  /\ Goes(p, SweepTask)
  /\ lock' = lock_on_exit("sweep", p)
  /\ UNCHANGED lockframe

LockNext ==
  \/ \E p \in Procs, role \in {"queue", "direct", "followup"}, key \in ApiKeys :
       begin(p, role, key, NoId)
  \/ \E p \in Procs : acquire(p)
  \/ \E p \in Procs : check_in(p)
  \/ \E p \in Procs : check_out(p)
  \/ \E p \in Procs : pop_in(p)
  \/ \E p \in Procs : pop_out(p)
  \/ \E p \in Procs, outcome \in DeleteOutcomes : delete_returns(p, outcome)
  \/ \E p \in Procs, ok \in BOOLEAN : transport_returns(p, ok)
  \/ \E p \in Procs : add_in(p)
  \/ \E p \in Procs : wake(p)
  \/ \E p \in Procs : scan(p)
  \/ \E p \in Procs : remove(p)
  \/ Clock

LockSpec == Init /\ [][LockNext]_vars

\* the step in which task p reads or writes the map
Accesses(p) == procs[p].pc \in BodyPcs /\ procs'[p] # procs[p]

\* C22: every read or write of the pending map by add, check, pop and the
\* sweep happens while the task holds the lock; at most one task is inside a
\* locked block at a time; the map changes only in such a step; and while the
\* sweep is between its scan for expired keys and their removal, no other
\* task reads or writes the map.
C22_LockSerializes ==
  /\ [](\A p \in Procs : procs[p].pc \in BodyPcs => lock = p)
  /\ [](Cardinality({p \in Procs : procs[p].pc \in BodyPcs}) <= 1)
  /\ [][queue' # queue => \E p \in Procs : Accesses(p) /\ lock = p]_vars
  /\ [][\A p \in Procs : Accesses(p) =>
          \A q \in Procs \ {p} : procs[q].pc # "remove"]_vars

\* the sweep has collected an expired key and not yet removed it, while a
\* handler that passed the filter on that key waits for the lock to pop it
C22_Witness ==
  /\ procs[SweepProc].pc = "remove"
  /\ lock = SweepProc
  /\ \E p \in Procs :
       /\ procs[p].pc = "pop_want"
       /\ procs[p].key \in procs[SweepProc].expired
       /\ queue[procs[p].key] # None

\* C23: no task that awaits a transport call (message.delete(), a send, a
\* notice) holds the lock; the holder of the lock is always inside a read or
\* a mutation of the map.
C23_NoTransportUnderLock ==
  /\ \A p \in Procs : procs[p].pc \in TransportPcs => lock # p
  /\ lock # 0 => lock \in Procs /\ procs[lock].pc \in BodyPcs

\* one handler awaits the send of a follow-up it popped while another is
\* inside pop(), the lock taken
C23_Witness ==
  \E p, q \in Procs :
    /\ procs[p].pc = "send" /\ procs[p].role = "followup"
    /\ procs[q].pc = "pop_in" /\ lock = q

\* ---- several users and chats ----
\* users 1 and 2 in chat 1 and user 1 in chat 2 each send the prefix alone
\* and a plain text; the router is offered the next event when the last one
\* is handled
Senders == {<<1, 1>>, <<1, 2>>, <<2, 1>>}
SenderMessages ==
  {Message(key, x, <<>>, {}, NoId) : key \in Senders, x \in {<<"@anon">>, <<"hi">>}}

SenderNext ==
  \/ \E message \in SenderMessages : Serial /\ DispatchAnon(message)
  \/ \E message \in SenderMessages : Serial /\ DispatchQueued(message)
  \/ \E message \in SenderMessages : Serial /\ DispatchIgnored(message)
  \/ \E t \in Running : handle_queued_message(t)
  \/ \E t \in Running, outcome \in DeleteOutcomes : DeleteOriginal(t, outcome)
  \/ \E t \in Running, ok \in BOOLEAN : SendAnonymous(t, ok)
  \/ \E t \in Running, ok \in BOOLEAN : SendError(t, ok)
  \/ cleanup_loop
  \/ Clock

SenderSpec == EventInit /\ [][SenderNext]_vars

\* the chat and the user an event comes from
Own(message) == <<message.chat_id, message.user_id>>
\* the step starts task t
Started(t) == CopiesIn(t, tasks') > CopiesIn(t, tasks)

\* C24: key isolation.  A step of the handler of an event (the add or the pop
\* it makes) leaves the entry of every key but the event's own (chat, user)
\* unchanged; the filter's check changes nothing; a follow-up handler is
\* started only for an event whose own (chat, user) has a live entry; and the
\* entry a handler popped is the one registered by its event's own user in
\* its own chat.
C24_KeyIsolation ==
  [][/\ \A t \in Running :
          (\/ handle_queued_message(t)
           \/ \E outcome \in DeleteOutcomes : DeleteOriginal(t, outcome)
           \/ \E ok \in BOOLEAN : SendAnonymous(t, ok) \/ SendError(t, ok))
          => \A key \in Keys \ {Own(t.msg)} : queue'[key] = queue[key]
     /\ BagCardinality(tasks') > BagCardinality(tasks) => queue' = queue
     /\ \A t \in BagToSet(tasks') :
          /\ (Started(t) /\ t.mode = "followup" /\ t.pc = "body")
               => Live(Own(t.msg))
          /\ t.entry # None => /\ t.entry.chat_id = t.msg.chat_id
                               /\ t.entry.user_id = t.msg.user_id]_vars

\* user 1 of chat 1 has a live entry; the plain text of user 2 in chat 1 was
\* offered last and went unhandled, no call made, the entry still there
C24_Witness ==
  /\ handled.msg = Message(<<1, 2>>, <<"hi">>, <<>>, {}, NoId)
  /\ handled.log = <<>> /\ tasks = EmptyBag
  /\ Live(<<1, 1>>) /\ fresh[<<1, 1>>]
  /\ queue[<<1, 2>>] = None /\ queue[<<2, 1>>] = None

\* ---- direct mode and the pending entry ----
\* the text or caption of the event opens with the prefix
Prefixed(message) ==
  LET x == IF message.text # <<>> THEN message.text ELSE message.caption
  IN  x # <<>> /\ lower(x[1]) = "@anon"

\* and something follows it, or a medium comes with it
WithPayload(message) ==
  LET x == IF message.text # <<>> THEN message.text ELSE message.caption
  IN  /\ Prefixed(message)
      /\ (message.media # {} \/ \E i \in 2..Len(x) : x[i] # " ")

\* C25: direct mode does not touch the pending queue.  No step of the
\* handling of a prefixed event with a payload (its dispatch, its delete, its
\* send, a notice) changes the map: a live entry of the same (chat, user) is
\* neither popped nor replaced and keeps its expiry; and when the next event
\* of that user in that chat is non-prefixed, has content and comes before
\* the expiry, the follow-up handler is started for it.
C25_DirectKeepsEntry ==
  [][/\ (/\ handled'.msg # None /\ WithPayload(handled'.msg)
         /\ (handled' # handled \/ tasks' # tasks))
        => queue' = queue /\ fresh' = fresh
     /\ (/\ handled.msg # None /\ WithPayload(handled.msg)
         /\ handled' # handled /\ handled'.log = <<>>
         /\ ~Prefixed(handled'.msg) /\ ~Contentless(handled'.msg)
         /\ Own(handled'.msg) = Own(handled.msg)
         /\ Live(Own(handled.msg)))
        => \E t \in BagToSet(tasks') :
             t.mode = "followup" /\ t.msg = handled'.msg /\ t.pc = "body"]_vars

\* a command with a payload was deleted and reposted while the entry its
\* user registered before was live, and the entry is still live
C25_Witness ==
  /\ handled.msg # None /\ WithPayload(handled.msg)
  /\ Len(handled.log) = 2
  /\ handled.log[1].op = "delete" /\ handled.log[1].ok
  /\ handled.log[2].op = "send" /\ handled.log[2].ok
  /\ tasks = EmptyBag
  /\ Live(Own(handled.msg)) /\ fresh[Own(handled.msg)]

\* ---- a follow-up that fails ----
\* how many calls of these kinds the log holds
Calls(log, ops) == Cardinality({i \in 1..Len(log) : log[i].op \in ops})

\* the event handled was a follow-up whose entry was popped
Popped(h) == h.msg # None /\ h.log # <<>> /\ h.log[1].op = "pop" /\ h.log[1].ok

\* and its delete failed, or its send did
FailedFollowUp(h) ==
  /\ Popped(h)
  /\ \E i \in 1..Len(h.log) : h.log[i].op \in {"delete", "send"} /\ ~h.log[i].ok

\* C26: in follow-up mode the entry is consumed before the delete is
\* attempted and is never restored: pop() comes first, from then on the key
\* has no entry whatever the delete and the send do, each is tried at most
\* once, and after a failed delete or a failed send the next non-prefixed
\* event of that user in that chat starts no handler.
C26_ConsumedBeforeDelete ==
  /\ [](Popped(handled) =>
          /\ queue[Own(handled.msg)] = None
          /\ Calls(handled.log, {"pop"}) = 1
          /\ Calls(handled.log, {"delete"}) <= 1
          /\ Calls(handled.log, {"send"}) <= 1)
  /\ [](handled.msg # None /\ ~Prefixed(handled.msg) =>
          \A i \in 1..Len(handled.log) :
            handled.log[i].op = "delete" => i = 2 /\ Popped(handled))
  /\ [][(/\ FailedFollowUp(handled) /\ tasks = EmptyBag
         /\ handled' # handled /\ ~Prefixed(handled'.msg)
         /\ Own(handled'.msg) = Own(handled.msg))
        => tasks' = EmptyBag /\ queue' = queue]_vars

\* a follow-up's entry was popped, the delete of its original was refused,
\* the handler is over and the key has no entry
C26_Witness ==
  /\ Popped(handled) /\ ~Contentless(handled.msg)
  /\ Len(handled.log) >= 2
  /\ handled.log[2].op = "delete" /\ handled.log[2].arg = "forbidden"
  /\ tasks = EmptyBag
  /\ queue[Own(handled.msg)] = None

====
